---- MODULE Spec2Model ----
(***************************************************************************)
(* GL / bank statement categorisation and summary                          *)
(* (src/gl_bank_agentic_model.py and src/GL_BANK_LANGCHAIN.py).            *)
(*                                                                         *)
(* Text is modelled as strings of characters; Python values that reach the *)
(* classifiers are tagged records: a str, an int, the float NaN of an      *)
(* empty cell, or None.                                                    *)
(***************************************************************************)
EXTENDS Integers, Sequences, FiniteSets, TLC

VARIABLES
    pc,             \* position of the script / of the function applied
    variant,        \* which of the two source files runs
    arg,            \* argument of the function applied; the uploaded files of a run
    out,            \* its result
    out2,           \* result of the second application / of the other variant
    gl_df,          \* GL table: [columns, rows], a row maps column to value
    bank_df,        \* bank table: [columns, rows]
    col_text, col_type, col_revsd_amt,
    gl_sum, bank_sum, summary_df,
    shown           \* what the page has displayed so far

vars == <<pc, variant, arg, out, out2, gl_df, bank_df, col_text, col_type,
          col_revsd_amt, gl_sum, bank_sum, summary_df, shown>>

(***************************************************************************)
(* Bounds of the model.                                                    *)
(***************************************************************************)
MaxLen == 4         \* longest text given to normalize_text
MaxFrags == 2       \* fragments concatenated into a bank narrative
MaxCols == 3        \* columns of a header given to find_col
MaxRows == 2        \* rows of each table in a run of the script

(***************************************************************************)
(* Python values.                                                          *)
(***************************************************************************)
PyStr(s) == [kind |-> "str", str |-> s]
PyInt(n) == [kind |-> "int", int |-> n]
NaN == [kind |-> "float", nan |-> TRUE]
None == [kind |-> "NoneType"]

isinstance_str(v) == v.kind = "str"

LowerCase == "abcdefghijklmnopqrstuvwxyz"
UpperCase == "ABCDEFGHIJKLMNOPQRSTUVWXYZ"
Digits == "0123456789"
Whitespace == {" ", "\t", "\n", "\r", "\f"}

CharAt(s, i) == SubSeq(s, i, i)

\* position of the one-character string c in the string s, 0 when absent
RECURSIVE IndexOf(_, _, _)
IndexOf(s, c, i) ==
    IF i > Len(s) THEN 0
    ELSE IF CharAt(s, i) = c THEN i ELSE IndexOf(s, c, i + 1)

\* the case mappings of the ASCII letters
ToUpper ==
    [c \in {CharAt(LowerCase, i) : i \in 1..Len(LowerCase)} |->
        CharAt(UpperCase, IndexOf(LowerCase, c, 1))]
ToLower ==
    [c \in {CharAt(UpperCase, i) : i \in 1..Len(UpperCase)} |->
        CharAt(LowerCase, IndexOf(UpperCase, c, 1))]

upper_char(c) == IF c \in DOMAIN ToUpper THEN ToUpper[c] ELSE c

lower_char(c) == IF c \in DOMAIN ToLower THEN ToLower[c] ELSE c

\* str.upper(), character by character over s[lo..hi]
RECURSIVE upper_range(_, _, _)
upper_range(s, lo, hi) ==
    IF lo > hi THEN ""
    ELSE IF lo = hi THEN upper_char(CharAt(s, lo))
    ELSE LET mid == (lo + hi) \div 2
         IN upper_range(s, lo, mid) \o upper_range(s, mid + 1, hi)

upper(s) == upper_range(s, 1, Len(s))

\* str.lower()
RECURSIVE lower_range(_, _, _)
lower_range(s, lo, hi) ==
    IF lo > hi THEN ""
    ELSE IF lo = hi THEN lower_char(CharAt(s, lo))
    ELSE LET mid == (lo + hi) \div 2
         IN lower_range(s, lo, mid) \o lower_range(s, mid + 1, hi)

lower(s) == lower_range(s, 1, Len(s))

\* re.sub(r'\s+', ' ', s): every maximal run of whitespace becomes one space,
\* that is, the first character of a run becomes ' ' and the rest of it goes
RECURSIVE re_sub_range(_, _, _)
re_sub_range(s, lo, hi) ==
    IF lo > hi THEN ""
    ELSE IF lo = hi
         THEN IF CharAt(s, lo) \notin Whitespace THEN CharAt(s, lo)
              ELSE IF lo > 1 /\ CharAt(s, lo - 1) \in Whitespace THEN "" ELSE " "
    ELSE LET mid == (lo + hi) \div 2
         IN re_sub_range(s, lo, mid) \o re_sub_range(s, mid + 1, hi)

re_sub_spaces(s) == re_sub_range(s, 1, Len(s))

RECURSIVE SkipSpace(_)
SkipSpace(s) ==
    IF s # "" /\ CharAt(s, 1) \in Whitespace THEN SkipSpace(Tail(s)) ELSE s

\* str.strip()
RECURSIVE rstrip(_)
rstrip(s) ==
    IF s # "" /\ CharAt(s, Len(s)) \in Whitespace
    THEN rstrip(SubSeq(s, 1, Len(s) - 1)) ELSE s

strip(s) == rstrip(SkipSpace(s))

\* str.replace(' ', '')
RECURSIVE replace_range(_, _, _)
replace_range(s, lo, hi) ==
    IF lo > hi THEN ""
    ELSE IF lo = hi THEN (IF CharAt(s, lo) = " " THEN "" ELSE CharAt(s, lo))
    ELSE LET mid == (lo + hi) \div 2
         IN replace_range(s, lo, mid) \o replace_range(s, mid + 1, hi)

replace_spaces(s) == replace_range(s, 1, Len(s))

\* k in s
Contains(s, k) ==
    \E i \in 0..(Len(s) - Len(k)) : SubSeq(s, i + 1, i + Len(k)) = k

\* s.startswith(k)
startswith(s, k) == Len(k) <= Len(s) /\ SubSeq(s, 1, Len(k)) = k

\* str(n) of an int
RECURSIVE NatToStr(_)
NatToStr(n) ==
    IF n < 10 THEN CharAt(Digits, n + 1)
    ELSE NatToStr(n \div 10) \o CharAt(Digits, (n % 10) + 1)

\* str(v)
str(v) ==
    CASE v.kind = "str" -> v.str
      [] v.kind = "int" -> IF v.int < 0 THEN "-" \o NatToStr(-v.int) ELSE NatToStr(v.int)
      [] v.kind = "float" -> "nan"
      [] v.kind = "NoneType" -> "None"

(***************************************************************************)
(* normalize_text                                                          *)
(***************************************************************************)
\* normalize_text without the final strip()
normalize_text_unstripped(s) ==
    IF ~isinstance_str(s) THEN ""
    ELSE re_sub_spaces(upper(s.str))

normalize_text(s) ==
    IF ~isinstance_str(s) THEN ""
    ELSE strip(re_sub_spaces(upper(s.str)))

(***************************************************************************)
(* Variables a specification does not use keep these values.               *)
(***************************************************************************)
Unset == [kind |-> "unset"]

IdleRun ==
    /\ variant = "agentic"
    /\ gl_df = Unset /\ bank_df = Unset
    /\ col_text = Unset /\ col_type = Unset /\ col_revsd_amt = Unset
    /\ gl_sum = Unset /\ bank_sum = Unset /\ summary_df = Unset
    /\ shown = <<>>

run_vars == <<variant, gl_df, bank_df, col_text, col_type, col_revsd_amt,
              gl_sum, bank_sum, summary_df, shown>>

(***************************************************************************)
(* SpecNormalize: normalize_text applied to a value, then to its result.   *)
(***************************************************************************)
Alphabet == {"a", "B", "7", " ", "\t"}

RECURSIVE Texts(_)
Texts(n) ==
    IF n = 0 THEN {""}
    ELSE LET shorter == Texts(n - 1)
         IN shorter \cup {t \o c : t \in {u \in shorter : Len(u) = n - 1}, c \in Alphabet}

NonText == {NaN, None, PyInt(0), PyInt(117)}

InitNormalize ==
    /\ pc = "input"
    /\ arg \in {PyStr(t) : t \in Texts(MaxLen)} \cup NonText
    /\ out = Unset /\ out2 = Unset
    /\ IdleRun

NormalizeOnce ==
    /\ pc = "input"
    /\ out' = normalize_text(arg)
    /\ pc' = "once"
    /\ UNCHANGED <<arg, out2, run_vars>>

NormalizeAgain ==
    /\ pc = "once"
    /\ out2' = normalize_text(PyStr(out))
    /\ pc' = "twice"
    /\ UNCHANGED <<arg, out, run_vars>>

NextNormalize == NormalizeOnce \/ NormalizeAgain

SpecNormalize == InitNormalize /\ [][NextNormalize]_vars

\* C7: normalize_text is idempotent; its result has no lower-case letter, no
\* leading or trailing whitespace and no two adjacent whitespace characters;
\* a value that is not a str (NaN, None, an int) gives the empty text.
HasLower(s) == \E i \in 1..Len(s) : Contains(LowerCase, CharAt(s, i))
HasSpaceRun(s) ==
    \E i \in 1..(Len(s) - 1) : CharAt(s, i) \in Whitespace /\ CharAt(s, i + 1) \in Whitespace
HasOuterSpace(s) ==
    s # "" /\ (CharAt(s, 1) \in Whitespace \/ CharAt(s, Len(s)) \in Whitespace)

C7_NormalizeIdempotent ==
    /\ pc = "twice" => out2 = out
    /\ pc \in {"once", "twice"} =>
          /\ ~HasLower(out) /\ ~HasSpaceRun(out) /\ ~HasOuterSpace(out)
          /\ (~isinstance_str(arg) => out = "")

C7_Witness ==
    /\ pc = "twice"
    /\ arg = PyStr(" a\tB")
    /\ out = "A B"
    /\ out2 = "A B"

(***************************************************************************)
(* find_col                                                                *)
(***************************************************************************)
RECURSIVE find_col_loop(_, _, _)
find_col_loop(columns, kl, i) ==
    IF i > Len(columns) THEN None
    ELSE LET c == columns[i]
             cl == lower(replace_spaces(str(c)))
         IN IF Contains(cl, kl) THEN c ELSE find_col_loop(columns, kl, i + 1)

\* find_col returning the last matching column instead of the first
find_col_last(columns, key) ==
    LET kl == lower(replace_spaces(key))
        hits == {i \in 1..Len(columns) : Contains(lower(replace_spaces(str(columns[i]))), kl)}
    IN IF hits = {} THEN None
       ELSE columns[CHOOSE i \in hits : \A j \in hits : j <= i]

find_col(columns, key) ==
    LET kl == lower(replace_spaces(key))
    IN find_col_loop(columns, kl, 1)

(***************************************************************************)
(* SpecFindCol: find_col applied to a header and a key.                    *)
(***************************************************************************)
ColumnPool == {PyStr("Text"), PyStr("Con Text"), PyStr("DATA  TYPE"),
               PyStr("Revsd Amt"), PyStr("Amount"), PyInt(2024)}
KeyPool == {"Text", "Data Type", "Revsd amt", " t EXT"}

RECURSIVE SeqsUpTo(_, _)
SeqsUpTo(S, n) ==
    IF n = 0 THEN {<<>>}
    ELSE LET shorter == SeqsUpTo(S, n - 1)
         IN shorter \cup {Append(q, x) : q \in {r \in shorter : Len(r) = n - 1}, x \in S}

InitFindCol ==
    /\ pc = "input"
    /\ arg \in [columns : SeqsUpTo(ColumnPool, MaxCols), key : KeyPool]
    /\ out = Unset /\ out2 = Unset
    /\ IdleRun

FindCol ==
    /\ pc = "input"
    /\ out' = find_col(arg.columns, arg.key)
    /\ pc' = "done"
    /\ UNCHANGED <<arg, out2, run_vars>>

NextFindCol == FindCol

SpecFindCol == InitFindCol /\ [][NextFindCol]_vars

\* C8: find_col returns the first column, in header order, whose name with
\* spaces removed and lower-cased contains the key with spaces removed and
\* lower-cased, and returns None exactly when no column does.
ColMatches(c, key) ==
    Contains(lower(replace_spaces(str(c))), lower(replace_spaces(key)))

C8_FindColFirstMatch ==
    pc = "done" =>
        LET cols == arg.columns
            hits == {i \in 1..Len(cols) : ColMatches(cols[i], arg.key)}
        IN /\ (out = None) <=> (hits = {})
           /\ \A i \in hits : (\A j \in hits : i <= j) => out = cols[i]

C8_Witness ==
    /\ pc = "done"
    /\ arg.columns = <<PyStr("Amount"), PyStr("Con Text"), PyStr("Text")>>
    /\ arg.key = " t EXT"
    /\ out = PyStr("Con Text")

(***************************************************************************)
(* Rows and category labels                                                *)
(***************************************************************************)
Labels == {"117", "119", "153", "NC Bank", "AP", "TAX", "UNMATCHED"}

\* row.get(key, default)
get(row, key, default) == IF key \in DOMAIN row THEN row[key] ELSE default

(***************************************************************************)
(* categorize_gl, as in gl_bank_agentic_model.py (rule 6: H11)             *)
(***************************************************************************)
\* categorize_gl with the Source rule for AP tried before the description rules
categorize_gl_source_first(row) ==
    LET source == upper(str(get(row, PyStr("Source"), PyStr(""))))
        desc == upper(str(get(row, PyStr("Journal Line Description"), PyStr(""))))
    IN IF Contains(source, "AP") THEN "AP"
       ELSE IF Contains(desc, "117") THEN "117"
       ELSE IF Contains(desc, "153") THEN "153"
       ELSE IF Contains(desc, "119") THEN "119"
       ELSE IF Contains(desc, "NC BANK") THEN "NC Bank"
       ELSE IF Contains(source, "H11") THEN "TAX"
       ELSE "UNMATCHED"

categorize_gl(row) ==
    LET source == upper(str(get(row, PyStr("Source"), PyStr(""))))
        desc == upper(str(get(row, PyStr("Journal Line Description"), PyStr(""))))
    IN IF Contains(desc, "117") THEN "117"
       ELSE IF Contains(desc, "153") THEN "153"
       ELSE IF Contains(desc, "119") THEN "119"
       ELSE IF Contains(desc, "NC BANK") THEN "NC Bank"
       ELSE IF Contains(source, "AP") THEN "AP"
       ELSE IF Contains(source, "H11") THEN "TAX"
       ELSE "UNMATCHED"

(***************************************************************************)
(* categorize_gl, as in GL_BANK_LANGCHAIN.py (rule 6: H11 or TAX)          *)
(***************************************************************************)
\* categorize_gl with the H11/TAX rule tried before the AP rule
categorize_gl_LANGCHAIN_tax_early(row) ==
    LET source == upper(str(get(row, PyStr("Source"), PyStr(""))))
        desc == upper(str(get(row, PyStr("Journal Line Description"), PyStr(""))))
    IN IF Contains(desc, "117") THEN "117"
       ELSE IF Contains(desc, "153") THEN "153"
       ELSE IF Contains(desc, "119") THEN "119"
       ELSE IF Contains(desc, "NC BANK") THEN "NC Bank"
       ELSE IF Contains(source, "H11") \/ Contains(source, "TAX") THEN "TAX"
       ELSE IF Contains(source, "AP") THEN "AP"
       ELSE "UNMATCHED"

categorize_gl_LANGCHAIN(row) ==
    LET source == upper(str(get(row, PyStr("Source"), PyStr(""))))
        desc == upper(str(get(row, PyStr("Journal Line Description"), PyStr(""))))
    IN IF Contains(desc, "117") THEN "117"
       ELSE IF Contains(desc, "153") THEN "153"
       ELSE IF Contains(desc, "119") THEN "119"
       ELSE IF Contains(desc, "NC BANK") THEN "NC Bank"
       ELSE IF Contains(source, "AP") THEN "AP"
       ELSE IF Contains(source, "H11") \/ Contains(source, "TAX") THEN "TAX"
       ELSE "UNMATCHED"

(***************************************************************************)
(* categorize_bank (the same text in both files)                           *)
(***************************************************************************)
nc_keywords == {"INDN:SETT-BATCH", "3351637714", "CO ID:3351637714", "CCD"}

keywords_119 == {
    "BNF:HERFF JONES LLC 4501 WEST 62ND STREET INDIANAPOLIS",
    "BNF BK:PNC BANK NATIONAL",
    "24295001305",
    "HERFF JONES LLC OPERATING ACCOUNT 4501",
    "JPMORGAN CHASE",
    "SND BK:WELLS FARGO BANK",
    "WELLS FARGO SWEEP",
    "24354001505",
    "JPMORGAN CHASE BANK"}

ap_words == {"CORP PMT", "VARSITY", "GOODS", "INV", "INTL OUT DATE:", "POP",
             "BALBOA", "VISION GEMS"}

is_ap(T, I) ==
    \/ (I = "DETAIL DEBITS" /\ \E w \in ap_words : Contains(T, w))
    \/ (startswith(T, "WIRE TYPE") /\ Contains(T, "INV"))
    \/ (Contains(T, "ACH DETAIL RETURN CO ID:5351637714 CCD") /\ I = "DETAIL CREDITS")

is_tax(T, I) ==
    (Contains(T, "TAX ") \/ Contains(T, "TAXPAY")) /\ I = "DETAIL DEBITS"

\* categorize_bank with the AP rule tried first
categorize_bank_ap_first(row, c_text, c_type) ==
    LET raw_text == get(row, c_text, PyStr(""))
        raw_type == get(row, c_type, PyStr(""))
        T == normalize_text(raw_text)
        I == normalize_text(raw_type)
    IN IF is_ap(T, I) THEN "AP"
       ELSE IF \A k \in nc_keywords : Contains(T, k) THEN "NC Bank"
       ELSE IF \E k \in keywords_119 : Contains(T, k) THEN "119"
       ELSE IF Contains(T, "TRSF") \/ Contains(T, "CUR") THEN "117"
       ELSE IF Contains(T, "BNF:LSC COMMUNICATIONS") THEN "153"
       ELSE IF is_tax(T, I) THEN "TAX"
       ELSE "UNMATCHED"

\* categorize_bank with the last label misspelt
categorize_bank_label_typo(row, c_text, c_type) ==
    LET raw_text == get(row, c_text, PyStr(""))
        raw_type == get(row, c_type, PyStr(""))
        T == normalize_text(raw_text)
        I == normalize_text(raw_type)
    IN IF \A k \in nc_keywords : Contains(T, k) THEN "NC Bank"
       ELSE IF \E k \in keywords_119 : Contains(T, k) THEN "119"
       ELSE IF Contains(T, "TRSF") \/ Contains(T, "CUR") THEN "117"
       ELSE IF Contains(T, "BNF:LSC COMMUNICATIONS") THEN "153"
       ELSE IF is_ap(T, I) THEN "AP"
       ELSE IF is_tax(T, I) THEN "TAX"
       ELSE "Unmatched"

categorize_bank(row, c_text, c_type) ==
    LET raw_text == get(row, c_text, PyStr(""))
        raw_type == get(row, c_type, PyStr(""))
        T == normalize_text(raw_text)
        I == normalize_text(raw_type)
    IN IF \A k \in nc_keywords : Contains(T, k) THEN "NC Bank"
       ELSE IF \E k \in keywords_119 : Contains(T, k) THEN "119"
       ELSE IF Contains(T, "TRSF") \/ Contains(T, "CUR") THEN "117"
       ELSE IF Contains(T, "BNF:LSC COMMUNICATIONS") THEN "153"
       ELSE IF is_ap(T, I) THEN "AP"
       ELSE IF is_tax(T, I) THEN "TAX"
       ELSE "UNMATCHED"

(***************************************************************************)
(* SpecClassify: each classifier applied to one row.                       *)
(***************************************************************************)
Absent == [kind |-> "absent"]       \* the row has no such field

\* the row holding the given <<column, value>> pairs, absent fields left out
MkRow(pairs) ==
    LET present == {p \in pairs : p[2] # Absent}
    IN [k \in {p[1] : p \in present} |-> (CHOOSE p \in present : p[1] = k)[2]]

GLSources == {Absent, NaN, None, PyInt(11), PyStr("AP-SYS"), PyStr("ap"),
              PyStr("H11"), PyStr("h11 tax"), PyStr("TAX"), PyStr("Tax ap"),
              PyStr("GL")}
GLDescriptions == {Absent, NaN, PyInt(117), PyInt(1530),
                   PyStr("payment batch 117 adj"), PyStr("inv 153"),
                   PyStr("x119"), PyStr("nc bank fee"), PyStr("NC  BANK"),
                   PyStr("119 then 153"), PyStr("misc")}

GLRows ==
    {MkRow({<<PyStr("Source"), s>>, <<PyStr("Journal Line Description"), d>>}) :
        s \in GLSources, d \in GLDescriptions}

Fragments == {
    "indn:sett-batch co id:3351637714 ccd ",
    "INDN:SETT-BATCH CCD ",
    "corp\tpmt ",
    "Wire Type ",
    "INV#4471 ",
    "TAXPAY Q3 ",
    "Tax",
    "trsf ",
    "JPMorgan  Chase ",
    "BNF:LSC Communications ",
    "ACH DETAIL RETURN CO ID:5351637714 CCD ",
    " misc "}

RECURSIVE Narratives(_)
Narratives(n) ==
    IF n = 0 THEN {""}
    ELSE LET shorter == Narratives(n - 1)
         IN shorter \cup {t \o f : t \in shorter, f \in Fragments}

BankTexts == {PyStr(t) : t \in Narratives(MaxFrags)} \cup {Absent, NaN, None, PyInt(117)}
BankTypes == {Absent, NaN, PyStr("Detail Debits"), PyStr(" detail\tdebits"),
              PyStr("DETAIL CREDITS"), PyStr("Summary")}

BankRows ==
    {MkRow({<<PyStr("Text"), x>>, <<PyStr("Data Type"), y>>}) :
        x \in BankTexts, y \in BankTypes}

InitClassify ==
    /\ \/ pc = "gl_row" /\ arg \in [row : GLRows]
       \/ /\ pc = "bank_row"
          /\ arg \in [row : BankRows, col_text : {PyStr("Text")},
                      col_type : {PyStr("Data Type")}]
    /\ out = Unset /\ out2 = Unset
    /\ IdleRun

ClassifyGL ==
    /\ pc = "gl_row"
    /\ out' = categorize_gl(arg.row)
    /\ out2' = categorize_gl_LANGCHAIN(arg.row)
    /\ pc' = "gl_done"
    /\ UNCHANGED <<arg, run_vars>>

ClassifyBank ==
    /\ pc = "bank_row"
    /\ out' = categorize_bank(arg.row, arg.col_text, arg.col_type)
    /\ pc' = "bank_done"
    /\ UNCHANGED <<arg, out2, run_vars>>

NextClassify == ClassifyGL \/ ClassifyBank

SpecClassify == InitClassify /\ [][NextClassify]_vars

Least(S) == CHOOSE i \in S : \A j \in S : i <= j

\* C1: categorize_bank returns the label of the first rule, in the order
\* NC Bank, 119, 117, 153, AP, TAX, that holds of the normalised text T and
\* type I, and UNMATCHED when none holds; a row that satisfies both the
\* NC Bank rule and the AP rule is labelled NC Bank.
BankRuleLabel == <<"NC Bank", "119", "117", "153", "AP", "TAX">>

BankRuleHolds(k, T, I) ==
    CASE k = 1 -> \A w \in nc_keywords : Contains(T, w)
      [] k = 2 -> \E w \in keywords_119 : Contains(T, w)
      [] k = 3 -> Contains(T, "TRSF") \/ Contains(T, "CUR")
      [] k = 4 -> Contains(T, "BNF:LSC COMMUNICATIONS")
      [] k = 5 -> is_ap(T, I)
      [] k = 6 -> is_tax(T, I)

C1_BankFirstRuleWins ==
    pc = "bank_done" =>
        LET T == normalize_text(get(arg.row, arg.col_text, PyStr("")))
            I == normalize_text(get(arg.row, arg.col_type, PyStr("")))
            hits == {k \in 1..6 : BankRuleHolds(k, T, I)}
        IN /\ out = IF hits = {} THEN "UNMATCHED" ELSE BankRuleLabel[Least(hits)]
           /\ (1 \in hits /\ 5 \in hits) => out = "NC Bank"

C1_Witness ==
    /\ pc = "bank_done"
    /\ arg.row = MkRow({<<PyStr("Text"), PyStr("indn:sett-batch co id:3351637714 ccd corp\tpmt ")>>,
                        <<PyStr("Data Type"), PyStr("Detail Debits")>>})
    /\ is_ap(normalize_text(arg.row[PyStr("Text")]), normalize_text(arg.row[PyStr("Data Type")]))
    /\ out = "NC Bank"

\* C2: categorize_gl returns the label of the first rule that holds, in the
\* order description contains 117, 153, 119, NC BANK, source contains AP,
\* source contains H11 (or TAX in the extended variant), and UNMATCHED when
\* none holds; a description containing 117 gives 117 whatever the Source.
GLRuleLabel == <<"117", "153", "119", "NC Bank", "AP", "TAX">>

GLRuleHolds(k, source, desc, extended) ==
    CASE k = 1 -> Contains(desc, "117")
      [] k = 2 -> Contains(desc, "153")
      [] k = 3 -> Contains(desc, "119")
      [] k = 4 -> Contains(desc, "NC BANK")
      [] k = 5 -> Contains(source, "AP")
      [] k = 6 -> Contains(source, "H11") \/ (extended /\ Contains(source, "TAX"))

GLFirstRule(source, desc, extended) ==
    LET hits == {k \in 1..6 : GLRuleHolds(k, source, desc, extended)}
    IN IF hits = {} THEN "UNMATCHED" ELSE GLRuleLabel[Least(hits)]

UpperSource(row) == upper(str(get(row, PyStr("Source"), PyStr(""))))
UpperDesc(row) == upper(str(get(row, PyStr("Journal Line Description"), PyStr(""))))

C2_GLFirstRuleWins ==
    pc = "gl_done" =>
        LET source == UpperSource(arg.row)
            desc == UpperDesc(arg.row)
        IN /\ out = GLFirstRule(source, desc, FALSE)
           /\ out2 = GLFirstRule(source, desc, TRUE)
           /\ Contains(desc, "117") => (out = "117" /\ out2 = "117")

C2_Witness ==
    /\ pc = "gl_done"
    /\ arg.row = MkRow({<<PyStr("Source"), PyStr("AP-SYS")>>,
                        <<PyStr("Journal Line Description"), PyStr("payment batch 117 adj")>>})
    /\ out = "117"
    /\ out2 = "117"

\* C3: both classifiers return, for every row, one label of the closed set
\* {117, 119, 153, NC Bank, AP, TAX, UNMATCHED}, also when a field they read
\* is missing, null (NaN, None) or not text.
C3_ClassifiersTotal ==
    /\ pc = "gl_done" => out \in Labels /\ out2 \in Labels
    /\ pc = "bank_done" => out \in Labels

C3_Witness ==
    /\ pc = "bank_done"
    /\ arg.row = MkRow({<<PyStr("Text"), NaN>>})
    /\ out = "UNMATCHED"

\* C9 as stated: the variants agree when the upper-cased Source has no TAX or
\* has H11, and disagree (TAX against UNMATCHED) whenever it has TAX and no H11.
C9_VariantsDisagreeOnTaxSource ==
    pc = "gl_done" =>
        LET source == UpperSource(arg.row)
        IN /\ (~Contains(source, "TAX") \/ Contains(source, "H11")) => out = out2
           /\ (Contains(source, "TAX") /\ ~Contains(source, "H11")) =>
                 (out = "UNMATCHED" /\ out2 = "TAX")

\* C9 amended: the variants disagree exactly on the rows whose upper-cased
\* Source contains TAX but neither H11 nor AP and whose upper-cased
\* description contains none of 117, 153, 119, NC BANK; there the H11-only
\* variant gives UNMATCHED and the extended one TAX.
C9_VariantsDisagreeOnlyAtRule6 ==
    pc = "gl_done" =>
        LET source == UpperSource(arg.row)
            desc == UpperDesc(arg.row)
            earlier == \/ \E w \in {"117", "153", "119", "NC BANK"} : Contains(desc, w)
                       \/ Contains(source, "AP")
            reached == Contains(source, "TAX") /\ ~Contains(source, "H11") /\ ~earlier
        IN /\ (out # out2) <=> reached
           /\ reached => (out = "UNMATCHED" /\ out2 = "TAX")

C9_Witness ==
    /\ pc = "gl_done"
    /\ arg.row = MkRow({<<PyStr("Source"), PyStr("TAX")>>,
                        <<PyStr("Journal Line Description"), PyStr("misc")>>})
    /\ out = "UNMATCHED"
    /\ out2 = "TAX"

(***************************************************************************)
(* The script: load, label, detect columns, aggregate                      *)
(***************************************************************************)
Remark == PyStr("Remark")

\* df[name] = df.apply(f, axis=1): one more column, a value per row
WithRemark(df, remarks) ==
    [columns |-> Append(df.columns, Remark),
     rows |-> [i \in 1..Len(df.rows) |-> df.rows[i] @@ (Remark :> PyStr(remarks[i]))]]

\* gl_df['Remark'] = gl_df.apply(categorize_gl, axis=1), in either file
label_gl(v, df) ==
    WithRemark(df, [i \in 1..Len(df.rows) |->
        IF v = "langchain" THEN categorize_gl_LANGCHAIN(df.rows[i])
        ELSE categorize_gl(df.rows[i])])

\* bank_df['Remark'] = bank_df.apply(lambda r: categorize_bank(r, ...), axis=1)
label_bank(df, c_text, c_type) ==
    WithRemark(df, [i \in 1..Len(df.rows) |-> categorize_bank(df.rows[i], c_text, c_type)])

\* bool(v) is False
Falsy(v) == v = None \/ v = PyStr("") \/ v = PyInt(0)

\* the column test without the amount column
columns_missing_text_only(c_text, c_type, c_amt) == Falsy(c_text) \/ Falsy(c_type)

\* not col_text or not col_type or not col_revsd_amt
columns_missing(c_text, c_type, c_amt) ==
    Falsy(c_text) \/ Falsy(c_type) \/ Falsy(c_amt)

\* the order in which groupby sorts the labels (str comparison)
LabelOrder == <<"117", "119", "153", "AP", "NC Bank", "TAX", "UNMATCHED">>

RECURSIVE Keep(_, _)
Keep(seq, S) ==
    IF seq = <<>> THEN <<>>
    ELSE IF Head(seq) \in S THEN <<Head(seq)>> \o Keep(Tail(seq), S)
    ELSE Keep(Tail(seq), S)

\* a cell as Series.sum() counts it: NaN is skipped
amount(v) == IF v.kind = "int" THEN v.int ELSE 0

RECURSIVE sum_where(_, _, _)
sum_where(rows, col, label) ==
    IF rows = <<>> THEN 0
    ELSE (IF Head(rows)[Remark].str = label THEN amount(Head(rows)[col]) ELSE 0)
         + sum_where(Tail(rows), col, label)

\* the amount of the first row of a group, in place of the group's sum
first_where(rows, col, label) ==
    LET i == Least({j \in 1..Len(rows) : rows[j][Remark].str = label})
    IN amount(rows[i][col])

groupby_first(df, col) ==
    LET keys == Keep(LabelOrder, {df.rows[i][Remark].str : i \in 1..Len(df.rows)})
    IN [i \in 1..Len(keys) |-> [Remark |-> keys[i], value |-> first_where(df.rows, col, keys[i])]]

\* df.groupby('Remark')[col].sum(): one entry per label present, sorted
groupby_sum(df, col) ==
    LET keys == Keep(LabelOrder, {df.rows[i][Remark].str : i \in 1..Len(df.rows)})
    IN [i \in 1..Len(keys) |-> [Remark |-> keys[i], value |-> sum_where(df.rows, col, keys[i])]]

Index(series) == [i \in 1..Len(series) |-> series[i].Remark]
IndexSet(series) == {series[i].Remark : i \in 1..Len(series)}

\* the value of the series at a label, NaN filled with 0 where it has none
value_or_0(series, label) ==
    IF label \in IndexSet(series)
    THEN series[Least({i \in 1..Len(series) : series[i].Remark = label})].value
    ELSE 0

\* the summary as an inner join: labels present on both sides only
concat_inner(gl, bank) ==
    LET index == Keep(Index(gl), IndexSet(bank))
    IN [i \in 1..Len(index) |->
           [Category |-> index[i],
            GL |-> value_or_0(gl, index[i]),
            BankStatement |-> value_or_0(bank, index[i])]]

\* the summary as a left join: labels present on the GL side only
concat_left(gl, bank) ==
    LET index == Index(gl)
    IN [i \in 1..Len(index) |->
           [Category |-> index[i],
            GL |-> value_or_0(gl, index[i]),
            BankStatement |-> value_or_0(bank, index[i])]]

\* pd.concat([gl_sum, bank_sum], axis=1).fillna(0).reset_index().rename(...)
concat_summary(gl, bank) ==
    LET index == Index(gl) \o Keep(Index(bank), IndexSet(bank) \ IndexSet(gl))
    IN [i \in 1..Len(index) |->
           [Category |-> index[i],
            GL |-> value_or_0(gl, index[i]),
            BankStatement |-> value_or_0(bank, index[i])]]

(***************************************************************************)
(* Spec: one run of the script on the uploaded files.                      *)
(***************************************************************************)
ForeignAmount == PyStr("Foreign Amount")

GLColumns == <<PyStr("Source"), PyStr("Journal Line Description"), ForeignAmount>>

GLCells == {
    <<PyStr("AP-SYS"), PyStr("payment batch 117 adj"), PyInt(5)>>,
    <<PyStr("GL"), PyInt(117), NaN>>,
    <<PyStr("Tax"), PyStr("misc"), PyInt(3)>>}

BankHeaders == {
    <<PyStr("Con Text"), PyStr("DATA  TYPE"), PyStr("Revsd Amt")>>,
    <<PyStr("Text"), PyStr("Data Type"), PyStr("Amount")>>,
    <<PyStr("Narrative"), PyStr("Data Type"), PyStr("Revsd amt")>>}

BankCells == {
    <<PyStr("TAXPAY Q3 ESTIMATE"), PyStr("Detail Debits"), PyInt(-3)>>,
    <<PyStr("tax  due"), PyStr("detail debits"), PyInt(-4)>>,
    <<PyStr("WIRE TYPE INTL INV#4471"), NaN, PyInt(7)>>,
    <<NaN, PyStr("Detail Credits"), NaN>>}

\* the table with the given header whose rows hold the given cells
Table(header, cells) ==
    [columns |-> header,
     rows |-> [i \in 1..Len(cells) |->
                 [c \in {header[j] : j \in 1..Len(header)} |->
                     cells[i][Least({j \in 1..Len(header) : header[j] = c})]]]]

\* an uploaded file holds at least one data row
GLFiles == {Table(GLColumns, cells) : cells \in SeqsUpTo(GLCells, MaxRows) \ {<<>>}}
BankFiles ==
    {Table(h, cells) : h \in BankHeaders, cells \in SeqsUpTo(BankCells, MaxRows) \ {<<>>}}

NotYet(v) == IF v = "agentic" THEN None ELSE Unset

Init ==
    /\ pc = "start"
    /\ variant \in {"agentic", "langchain"}
    /\ arg \in [uploaded_gl : GLFiles \cup {None}, uploaded_bank : BankFiles \cup {None}]
    /\ out = Unset /\ out2 = Unset
    \* gl_df = bank_df = None; summary_df = None (the names are unbound in
    \* GL_BANK_LANGCHAIN.py until assigned)
    /\ gl_df = NotYet(variant) /\ bank_df = NotYet(variant) /\ summary_df = NotYet(variant)
    /\ col_text = Unset /\ col_type = Unset /\ col_revsd_amt = Unset
    /\ gl_sum = Unset /\ bank_sum = Unset
    /\ shown = <<>>

\* else: st.info("Please upload both ...")
AskForUpload ==
    /\ pc = "start"
    /\ arg.uploaded_gl = None \/ arg.uploaded_bank = None
    /\ shown' = Append(shown, [widget |-> "info"])
    /\ pc' = "end"
    /\ UNCHANGED <<variant, arg, out, out2, gl_df, bank_df, col_text, col_type,
                   col_revsd_amt, gl_sum, bank_sum, summary_df>>

\* gl_df = pd.read_csv(...); gl_df['Remark'] = gl_df.apply(categorize_gl, axis=1)
LoadGL ==
    /\ pc = "start"
    /\ arg.uploaded_gl # None /\ arg.uploaded_bank # None
    /\ gl_df' = label_gl(variant, arg.uploaded_gl)
    /\ pc' = "gl_labelled"
    /\ UNCHANGED <<variant, arg, out, out2, bank_df, col_text, col_type,
                   col_revsd_amt, gl_sum, bank_sum, summary_df, shown>>

\* bank_df = pd.read_excel(...); the three find_col calls
DetectColumns ==
    /\ pc = "gl_labelled"
    /\ bank_df' = arg.uploaded_bank
    /\ col_text' = find_col(arg.uploaded_bank.columns, "Text")
    /\ col_type' = find_col(arg.uploaded_bank.columns, "Data Type")
    /\ col_revsd_amt' = find_col(arg.uploaded_bank.columns, "Revsd amt")
    /\ pc' = "detected"
    /\ UNCHANGED <<variant, arg, out, out2, gl_df, gl_sum, bank_sum, summary_df, shown>>

\* st.error(f"... {list(bank_df.columns)}"); st.stop()
StopOnMissingColumn ==
    /\ pc = "detected"
    /\ columns_missing(col_text, col_type, col_revsd_amt)
    /\ shown' = Append(shown, [widget |-> "error", columns |-> bank_df.columns])
    /\ pc' = "stopped"
    /\ UNCHANGED <<variant, arg, out, out2, gl_df, bank_df, col_text, col_type,
                   col_revsd_amt, gl_sum, bank_sum, summary_df>>

\* bank_df['Remark'] = bank_df.apply(...)
LabelBank ==
    /\ pc = "detected"
    /\ ~columns_missing(col_text, col_type, col_revsd_amt)
    /\ bank_df' = label_bank(bank_df, col_text, col_type)
    /\ pc' = "bank_labelled"
    /\ UNCHANGED <<variant, arg, out, out2, gl_df, col_text, col_type,
                   col_revsd_amt, gl_sum, bank_sum, summary_df, shown>>

\* gl_sum, bank_sum, summary_df
Aggregate ==
    /\ pc = "bank_labelled"
    /\ gl_sum' = groupby_sum(gl_df, ForeignAmount)
    /\ bank_sum' = groupby_sum(bank_df, col_revsd_amt)
    /\ summary_df' = concat_summary(gl_sum', bank_sum')
    /\ pc' = "aggregated"
    /\ UNCHANGED <<variant, arg, out, out2, gl_df, bank_df, col_text, col_type,
                   col_revsd_amt, shown>>

\* st.success(...) (agentic file only); st.dataframe(summary_df)
ShowSummary ==
    /\ pc = "aggregated"
    /\ shown' = shown
                \o (IF variant = "agentic" THEN <<[widget |-> "success"]>> ELSE <<>>)
                \o <<[widget |-> "dataframe", data |-> summary_df]>>
    /\ pc' = "end"
    /\ UNCHANGED <<variant, arg, out, out2, gl_df, bank_df, col_text, col_type,
                   col_revsd_amt, gl_sum, bank_sum, summary_df>>

Next ==
    \/ AskForUpload
    \/ LoadGL
    \/ DetectColumns
    \/ StopOnMissingColumn
    \/ LabelBank
    \/ Aggregate
    \/ ShowSummary

Spec == Init /\ [][Next]_vars

Summarised ==
    pc = "aggregated" \/ (pc = "end" /\ arg.uploaded_gl # None /\ arg.uploaded_bank # None)

RECURSIVE SumSeq(_)
SumSeq(seq) == IF seq = <<>> THEN 0 ELSE Head(seq) + SumSeq(Tail(seq))

HasRemark(df) == \E i \in 1..Len(df.rows) : Remark \in DOMAIN df.rows[i]
AllHaveRemark(df) == \A i \in 1..Len(df.rows) : Remark \in DOMAIN df.rows[i]

\* C4 as stated: when a required bank column is not resolved the run shows the
\* error with the full column list and stops with no row of either table
\* given a Remark and no summary produced.
C4_StopsBeforeAnyLabelling ==
    pc = "stopped" =>
        /\ shown = <<[widget |-> "error", columns |-> arg.uploaded_bank.columns]>>
        /\ ~HasRemark(gl_df)
        /\ ~HasRemark(bank_df)
        /\ summary_df = NotYet(variant)

\* C4 amended: when a required bank column is not resolved the run shows the
\* error with the full column list and stops before the bank table is
\* labelled and before aggregation: no bank row has a Remark and no summary
\* exists or is shown; the GL rows have all been given their Remark by then.
\* A run that labels the bank table has resolved all three columns.
C4_StopsBeforeBankLabelling ==
    /\ pc = "stopped" =>
          /\ columns_missing(find_col(arg.uploaded_bank.columns, "Text"),
                             find_col(arg.uploaded_bank.columns, "Data Type"),
                             find_col(arg.uploaded_bank.columns, "Revsd amt"))
          /\ shown = <<[widget |-> "error", columns |-> arg.uploaded_bank.columns]>>
          /\ ~HasRemark(bank_df)
          /\ gl_sum = Unset /\ bank_sum = Unset /\ summary_df = NotYet(variant)
          /\ AllHaveRemark(gl_df)
    /\ pc = "bank_labelled" =>
          /\ col_text # None /\ col_type # None /\ col_revsd_amt # None
          /\ shown = <<>>

C4_Witness ==
    /\ pc = "stopped"
    /\ col_revsd_amt = None /\ col_text = PyStr("Text")
    /\ Len(gl_df.rows) = 2 /\ AllHaveRemark(gl_df)
    /\ Len(bank_df.rows) = 2 /\ ~HasRemark(bank_df)

\* C5: the GL column of the summary adds up to the sum of Foreign Amount over
\* all GL rows, and its Bank Statement column to the sum of the resolved
\* Revsd amt column over all bank rows (an empty cell counts as 0 in both).
C5_AggregationConserves ==
    Summarised =>
        /\ SumSeq([i \in 1..Len(summary_df) |-> summary_df[i].GL])
              = SumSeq([i \in 1..Len(gl_df.rows) |-> amount(gl_df.rows[i][ForeignAmount])])
        /\ SumSeq([i \in 1..Len(summary_df) |-> summary_df[i].BankStatement])
              = SumSeq([i \in 1..Len(bank_df.rows) |-> amount(bank_df.rows[i][col_revsd_amt])])

C5_Witness ==
    /\ pc = "aggregated"
    /\ Len(gl_df.rows) = 2 /\ Len(bank_df.rows) = 2
    /\ gl_df.rows[1][ForeignAmount] = PyInt(5) /\ gl_df.rows[2][ForeignAmount] = PyInt(3)
    /\ bank_df.rows[1][col_revsd_amt] = PyInt(-3) /\ bank_df.rows[2][col_revsd_amt] = PyInt(7)
    /\ SumSeq([i \in 1..Len(summary_df) |-> summary_df[i].GL]) = 8
    /\ SumSeq([i \in 1..Len(summary_df) |-> summary_df[i].BankStatement]) = 4

\* C6: the summary has exactly one row for each label given to a row of
\* either table and none for any other label; a label given on one side only
\* has total 0 on the other side.
RemarksOf(df) == {df.rows[i][Remark].str : i \in 1..Len(df.rows)}

C6_SummaryIsCategoryUnion ==
    Summarised =>
        /\ {summary_df[i].Category : i \in 1..Len(summary_df)}
              = RemarksOf(gl_df) \cup RemarksOf(bank_df)
        /\ \A i, j \in 1..Len(summary_df) :
              summary_df[i].Category = summary_df[j].Category => i = j
        /\ \A i \in 1..Len(summary_df) :
              /\ summary_df[i].Category \notin RemarksOf(gl_df) => summary_df[i].GL = 0
              /\ summary_df[i].Category \notin RemarksOf(bank_df) => summary_df[i].BankStatement = 0

C6_Witness ==
    /\ pc = "aggregated"
    /\ RemarksOf(gl_df) = {"117", "TAX"}
    /\ RemarksOf(bank_df) = {"TAX", "AP"}
    /\ Len(summary_df) = 3

\* C10: labelling and aggregation do not depend on the order of the rows: for
\* every permutation of the GL rows and of the bank rows each row gets the
\* Remark it got, and the summary holds the same categories with the same
\* totals; a table split in two parts labelled separately and put together
\* again is the table labelled whole.
Perms(n) == {f \in [1..n -> 1..n] : \A i, j \in 1..n : f[i] = f[j] => i = j}

Reordered(df, f) == [df EXCEPT !.rows = [i \in 1..Len(df.rows) |-> df.rows[f[i]]]]

Part(df, lo, hi) == [df EXCEPT !.rows = SubSeq(df.rows, lo, hi)]

SetOf(seq) == {seq[i] : i \in 1..Len(seq)}

C10_OrderIndependent ==
    pc = "aggregated" =>
        LET g == arg.uploaded_gl
            b == arg.uploaded_bank
        IN /\ \A f \in Perms(Len(g.rows)), h \in Perms(Len(b.rows)) :
                LET lg == label_gl(variant, Reordered(g, f))
                    lb == label_bank(Reordered(b, h), col_text, col_type)
                IN /\ lg = Reordered(gl_df, f)
                   /\ lb = Reordered(bank_df, h)
                   /\ SetOf(concat_summary(groupby_sum(lg, ForeignAmount),
                                           groupby_sum(lb, col_revsd_amt)))
                         = SetOf(summary_df)
           /\ \A k \in 1..(Len(g.rows) - 1) :
                label_gl(variant, Part(g, 1, k)).rows
                   \o label_gl(variant, Part(g, k + 1, Len(g.rows))).rows = gl_df.rows
           /\ \A k \in 1..(Len(b.rows) - 1) :
                label_bank(Part(b, 1, k), col_text, col_type).rows
                   \o label_bank(Part(b, k + 1, Len(b.rows)), col_text, col_type).rows
                      = bank_df.rows

C10_Witness ==
    /\ pc = "aggregated"
    /\ Len(gl_df.rows) = 2 /\ Len(bank_df.rows) = 2
    /\ gl_df.rows[1] # gl_df.rows[2]
    /\ gl_df.rows[1][Remark] = gl_df.rows[2][Remark]
    /\ bank_df.rows[1] # bank_df.rows[2]
    /\ bank_df.rows[1][Remark] = bank_df.rows[2][Remark]

====
